---- MODULE Spec2Model ----
(***************************************************************************)
(* Building-boundary extraction (src/src/App.jsx).                         *)
(*                                                                         *)
(* Part I  : pickOrMergeSourceFeatures, the seed-and-cluster merge.        *)
(* Part II : handleGetBuildingAtLocation, the cascading discovery          *)
(*           controller, with the map click handler that shares its UI     *)
(*           state.                                                        *)
(*                                                                         *)
(* Geometry abstraction.  Lengths are in units of 10 m.  A polygon is an   *)
(* axis-aligned rectangle [lo, hi] x [0, 2]; the reference point lies on   *)
(* the line y = 1, so every Turf predicate reduces to interval arithmetic  *)
(* on x.  JavaScript indices are 0-based with -1 for "none"; the model's   *)
(* are 1-based with 0 for "none".                                          *)
(***************************************************************************)
EXTENDS Integers, Sequences, FiniteSets, TLC

(* ------------------------------ bounds --------------------------------- *)
\* polygon corners lie on x = 0, 6, ..., 6*GridMax
GridMax == 2
\* at most this many polygons in one input feature list
MaxFrags == 3
\* in the calls where primitives throw, corners lie on x = 0, ..., 6*FaultyGridMax
FaultyGridMax == 1
\* and at most this many primitives throw on one polygon
MaxFaultsPerPolygon == 1

(* ------------------------- program constants --------------------------- *)
\* App.jsx:16
AREA_MULTIPLIER == 3
\* App.jsx:17, 0.05 km = 5 units of 10 m
MAX_NEIGHBOR_DISTANCE_KM == 5
\* App.jsx:134, the initial seedArea / minDist
Infinity == 999999

null == [type |-> "null"]

Abs(a) == IF a < 0 THEN 0 - a ELSE a

(* ------------------------------ geometry ------------------------------- *)
Coord == {6 * k : k \in 0..GridMax}

\* One polygon's coordinate array.  closed = FALSE is a ring whose last
\* position does not repeat the first: turf.polygon rejects it.
PolySet == {[lo |-> a, hi |-> b, closed |-> c] :
              a \in Coord, b \in Coord, c \in BOOLEAN} \
           {p \in [lo : Coord, hi : Coord, closed : BOOLEAN] : p.lo > p.hi}

\* the exterior ring of a polygon, a sequence of <<x, y>> positions
Ring(p) ==
  LET open == << <<p.lo, 0>>, <<p.hi, 0>>, <<p.hi, 2>>, <<p.lo, 2>> >>
  IN  IF p.closed THEN Append(open, <<p.lo, 0>>) ELSE open

\* the reference point as a position
PointAt(x) == <<x, 1>>

\* One edge test of the ray-casting loop:
\*   yi > y !== yj > y  &&  x < (xj - xi) * (y - yi) / (yj - yi) + xi
\* with the division cleared by the sign of (yj - yi).
RayToggles(point, ring, i, j) ==
  LET x  == point[1]
      y  == point[2]
      xi == ring[i][1]
      yi == ring[i][2]
      xj == ring[j][1]
      yj == ring[j][2]
      d  == yj - yi
  IN  /\ (yi > y) # (yj > y)
      /\ IF d > 0 THEN (x - xi) * d < (xj - xi) * (y - yi)
                  ELSE (x - xi) * d > (xj - xi) * (y - yi)

\* pointInRing: inside is toggled once per crossing edge (i, j = i - 1,
\* the first edge closing the ring from the last position)
pointInRing(point, ring) ==
  LET n == Len(ring)
      prev(i) == IF i = 1 THEN n ELSE i - 1
  IN  Cardinality({i \in 1..n : RayToggles(point, ring, i, prev(i))}) % 2 = 1

\* turf.polygon(coordinates): throws (null here) unless the ring is closed
turfPolygon(coords) == IF coords.closed THEN coords ELSE null

\* turf.area of a rectangle of height 2
turfArea(poly) == 2 * (poly.hi - poly.lo)

\* turf.point([lng, lat]): a point on the line y = 1
turfPoint(x) == [type |-> "Point", x |-> x]

\* turf.centroid: a point (corners are even, so the mean is exact)
turfCentroid(poly) == turfPoint((poly.lo + poly.hi) \div 2)

\* turf.distance between two points on the line y = 1
turfDistance(a, b) == Abs(a.x - b.x)

\* turf.booleanPointInPolygon, boundary included (ignoreBoundary defaults
\* to false)
booleanPointInPolygon(pt, poly) == poly.lo <= pt.x /\ pt.x <= poly.hi

\* turf.booleanIntersects: touch or overlap
booleanIntersects(p, q) == p.lo <= q.hi /\ q.lo <= p.hi

(* ------------------------- failing primitives -------------------------- *)
\* The Turf calls the merge makes on the polygon turfPolys[i] that throw
\* during this call: faults[i] is a subset of FailKinds, and an index
\* outside the domain of faults has none.  A primitive is a function of
\* its arguments, so a call that throws once for a polygon throws every
\* time.
VARIABLE faults

FailKinds == {"area", "centroid", "distance", "intersects", "pip"}

Throws(i, kind) == i \in DOMAIN faults /\ kind \in faults[i]

(* ------------------------------ features ------------------------------- *)
PolygonGeom(coords) == [type |-> "Polygon", coordinates |-> coords]
MultiPolygonGeom(parts) == [type |-> "MultiPolygon", coordinates |-> parts]

MakeFeature(id, geom) == [properties |-> id, geometry |-> geom]

\* Feature lists of n polygons handed to the merge: every polygon its own
\* Polygon feature, or all of them the parts of one MultiPolygon feature
\* (for n = 0 the empty list and a MultiPolygon with no part).
FeatureLists(n) ==
  {[k \in 1..n |-> MakeFeature(k, PolygonGeom(fs[k]))] : fs \in [1..n -> PolySet]}
  \cup {<<MakeFeature(1, MultiPolygonGeom(fs))>> : fs \in [1..n -> PolySet]}

\* Inputs of the calls in which primitives throw: n well-formed polygons
\* with corners on x = 0, ..., 6*FaultyGridMax, each its own feature
FaultyPolySet == {p \in PolySet : p.closed /\ p.hi <= 6 * FaultyGridMax}
FaultyFeatureLists(n) ==
  {[k \in 1..n |-> MakeFeature(k, PolygonGeom(fs[k]))] : fs \in [1..n -> FaultyPolySet]}
FaultyClickXs == {3 * k : k \in 0..(2 * FaultyGridMax)}
\* for each of the n polygons the primitives that throw on it
FaultAssignments(n) ==
  [1..n -> {S \in SUBSET FailKinds : Cardinality(S) <= MaxFaultsPerPolygon}]

\* reference points: polygon corners and polygon centres
ClickXs == {3 * k : k \in 0..(2 * GridMax)}

\* options of a merge call; 0 stands for an absent option.  The callers
\* pass none (lines 409, 615) or the adaptive pair (lines 645-646, 661).
OptionSet == [areaMultiplier : {0, 10}, maxDistanceKm : {0, 12}]

(* ------------------------------ flatten -------------------------------- *)
\* the polygons of one feature, in order (lines 80-101)
FeaturePolys(f) ==
  IF f.geometry.type = "Polygon" THEN <<f.geometry.coordinates>>
  ELSE f.geometry.coordinates

RECURSIVE FlattenFrom(_, _)
FlattenFrom(fs, k) ==
  IF k > Len(fs) THEN << >>
  ELSE FeaturePolys(fs[k]) \o FlattenFrom(fs, k + 1)

\* lines 83-99: every polygon is pushed onto coords inside the try block,
\* before turf.polygon is called; when turf.polygon throws, the catch block
\* pushes it onto coords a second time and null onto turfPolys
RECURSIVE PushPolys(_, _)
PushPolys(polys, k) ==
  IF k > Len(polys) THEN [coords |-> << >>, turfPolys |-> << >>]
  ELSE LET rest == PushPolys(polys, k + 1)
           c    == polys[k]
       IN  IF turfPolygon(c) # null
           THEN [coords    |-> <<c>> \o rest.coords,
                 turfPolys |-> <<turfPolygon(c)>> \o rest.turfPolys]
           ELSE [coords    |-> <<c, c>> \o rest.coords,
                 turfPolys |-> <<null>> \o rest.turfPolys]

\* extractPolygonCoords: { coords, turfPolys }.  turfPolys can be shorter
\* than coords; the callers index it up to coords.length, and the
\* undefined they read past its end is null here
extractPolygonCoords(fs) ==
  LET ex == PushPolys(FlattenFrom(fs, 1), 1)
  IN  [coords    |-> ex.coords,
       turfPolys |-> ex.turfPolys \o
                     [k \in 1..(Len(ex.coords) - Len(ex.turfPolys)) |-> null]]

(* --------------------------- seed selection ---------------------------- *)
\* variant: the first containing polygon wins, whatever its area
RECURSIVE SeedByContainmentFirst(_, _, _, _, _)
SeedByContainmentFirst(tp, x, i, idx, area) ==
  IF i > Len(tp) THEN <<idx, area>>
  ELSE IF tp[i] = null THEN SeedByContainmentFirst(tp, x, i + 1, idx, area)
  ELSE IF booleanPointInPolygon(turfPoint(x), tp[i]) /\ idx = 0
       THEN SeedByContainmentFirst(tp, x, i + 1, i, turfArea(tp[i]))
       ELSE SeedByContainmentFirst(tp, x, i + 1, idx, area)

\* lines 133-149: smallest polygon containing the point; the result is
\* <<seedIndex, seedArea>>.  A throw of booleanPointInPolygon or of
\* turf.area is caught on line 146 and the polygon passed over (turf.area
\* is only called for a containing polygon, where passing over it and
\* not comparing it are the same)
RECURSIVE SeedByContainment(_, _, _, _, _)
SeedByContainment(tp, x, i, idx, area) ==
  IF i > Len(tp) THEN <<idx, area>>
  ELSE IF tp[i] = null THEN SeedByContainment(tp, x, i + 1, idx, area)
  ELSE IF Throws(i, "pip") \/ Throws(i, "area")
       THEN SeedByContainment(tp, x, i + 1, idx, area)
  ELSE IF booleanPointInPolygon(turfPoint(x), tp[i]) /\ turfArea(tp[i]) < area
       THEN SeedByContainment(tp, x, i + 1, i, turfArea(tp[i]))
       ELSE SeedByContainment(tp, x, i + 1, idx, area)

\* lines 152-161: first polygon whose raw ring contains the point
RECURSIVE SeedByRayCast(_, _, _, _)
SeedByRayCast(coords, tp, x, i) ==
  IF i > Len(coords) THEN <<0, Infinity>>
  ELSE IF pointInRing(PointAt(x), Ring(coords[i]))
       THEN <<i, IF tp[i] # null THEN turfArea(tp[i]) ELSE 0>>
       ELSE SeedByRayCast(coords, tp, x, i + 1)

\* variant: minDist is never lowered, so the last valid polygon wins
RECURSIVE SeedByNearestStale(_, _, _, _, _, _)
SeedByNearestStale(tp, x, i, idx, area, minDist) ==
  IF i > Len(tp) THEN <<idx, area>>
  ELSE IF tp[i] = null THEN SeedByNearestStale(tp, x, i + 1, idx, area, minDist)
  ELSE LET d == turfDistance(turfPoint(x), turfCentroid(tp[i]))
       IN  IF d < minDist
           THEN SeedByNearestStale(tp, x, i + 1, i, turfArea(tp[i]), minDist)
           ELSE SeedByNearestStale(tp, x, i + 1, idx, area, minDist)

\* lines 164-180: polygon with the closest centroid; <<seedIndex, seedArea>>.
\* minDist and seedIndex are assigned (lines 171-172) before turf.area is
\* called on line 173, so a throw of turf.area leaves seedArea as it was
RECURSIVE SeedByNearest(_, _, _, _, _, _)
SeedByNearest(tp, x, i, idx, area, minDist) ==
  IF i > Len(tp) THEN <<idx, area>>
  ELSE IF tp[i] = null THEN SeedByNearest(tp, x, i + 1, idx, area, minDist)
  ELSE IF Throws(i, "centroid") \/ Throws(i, "distance")
       THEN SeedByNearest(tp, x, i + 1, idx, area, minDist)
  ELSE LET d == turfDistance(turfPoint(x), turfCentroid(tp[i]))
       IN  IF d < minDist
           THEN IF Throws(i, "area")
                THEN SeedByNearest(tp, x, i + 1, i, area, d)
                ELSE SeedByNearest(tp, x, i + 1, i, turfArea(tp[i]), d)
           ELSE SeedByNearest(tp, x, i + 1, idx, area, minDist)

\* lines 131-180, the three steps in precedence order
SelectSeed(coords, tp, x) ==
  LET a == SeedByContainment(tp, x, 1, 0, Infinity)
      b == SeedByRayCast(coords, tp, x, 1)
      c == SeedByNearest(tp, x, 1, 0, Infinity, Infinity)
  IN  IF a[1] # 0 THEN a
      ELSE IF b[1] # 0 THEN b
      ELSE c

\* lines 152-189: the calls outside every try block.  turf.area on line
\* 157 (ray-casting step), turf.centroid on line 186 and turf.area on
\* line 188 are made on the seed polygon; their exception leaves
\* pickOrMergeSourceFeatures
SeedRaises(coords, tp, x) ==
  LET a == SeedByContainment(tp, x, 1, 0, Infinity)
      b == SeedByRayCast(coords, tp, x, 1)
      s == SelectSeed(coords, tp, x)
  IN  /\ s[1] # 0
      /\ tp[s[1]] # null
      /\ \/ a[1] = 0 /\ b[1] # 0 /\ Throws(b[1], "area")
         \/ Throws(s[1], "centroid")
         \/ s[2] <= 0 /\ Throws(s[1], "area")

(* ------------------------ merge: guarded expansion --------------------- *)
\* lines 193-197, areas[i]
AreaOf(tp, i) == IF tp[i] = null \/ Throws(i, "area") THEN 0 ELSE turfArea(tp[i])

\* lines 198-202, centroids[i]
CentroidOf(tp, i) ==
  IF tp[i] = null \/ Throws(i, "centroid") THEN null ELSE turfCentroid(tp[i])

\* line 186, seedCentroid
SeedCentroid(tp, seed, x) ==
  IF tp[seed] # null THEN turfCentroid(tp[seed]) ELSE turfPoint(x)

\* lines 187-189, seedArea recomputed when it is 0
SeedAreaFixed(tp, seed, area) ==
  IF area <= 0 THEN (IF tp[seed] # null THEN turfArea(tp[seed]) ELSE 0) ELSE area

\* lines 115-116, options.x || DEFAULT
AreaMultiplierOf(opts) ==
  IF opts.areaMultiplier # 0 THEN opts.areaMultiplier ELSE AREA_MULTIPLIER
MaxDistanceOf(opts) ==
  IF opts.maxDistanceKm # 0 THEN opts.maxDistanceKm ELSE MAX_NEIGHBOR_DISTANCE_KM

SeqToSet(s) == {s[k] : k \in 1..Len(s)}

\* variant: the distance is taken from the reference point, not from the
\* seed centroid
PassesDistanceGuardFromClick(tp, seed, x, i, maxDistanceKm) ==
  CentroidOf(tp, i) # null =>
    turfDistance(turfPoint(x), CentroidOf(tp, i)) <= maxDistanceKm

\* line 221: turf.distance between the seed centroid and the centroid of
\* candidate i throws; the catch of line 241 passes the candidate over
DistanceThrows(seed, i) == Throws(i, "distance") \/ Throws(seed, "distance")

\* lines 219-223: TRUE when the candidate passes the distance guard; the
\* guard is not applied to a candidate without a centroid (line 220)
PassesDistanceGuard(tp, seed, x, i, maxDistanceKm) ==
  CentroidOf(tp, i) # null =>
    /\ ~DistanceThrows(seed, i)
    /\ turfDistance(SeedCentroid(tp, seed, x), CentroidOf(tp, i)) <= maxDistanceKm

\* lines 226-227: TRUE when the candidate passes the area guard
PassesAreaGuard(tp, i, total, maxClusterArea) ==
  ~(maxClusterArea > 0 /\ total + AreaOf(tp, i) > maxClusterArea)

\* variant: the adjacency test left out
TouchesAnything(tp, i, members) == TRUE

\* lines 230-235: touchesCluster; a throw of booleanIntersects counts as
\* "does not intersect" for that pair (line 233)
TouchesCluster(tp, i, members) ==
  \E j \in members :
    /\ tp[j] # null
    /\ ~(Throws(i, "intersects") \/ Throws(j, "intersects"))
    /\ booleanIntersects(tp[i], tp[j])

\* lines 213-243: is candidate i added to the cluster on this visit?
Admits(tp, seed, x, i, members, total, maxClusterArea, maxDistanceKm) ==
  /\ i \notin members
  /\ tp[i] # null
  /\ PassesDistanceGuard(tp, seed, x, i, maxDistanceKm)
  /\ PassesAreaGuard(tp, i, total, maxClusterArea)
  /\ TouchesCluster(tp, i, members)

(* ---------------------------- merge: union ----------------------------- *)
GeomParts(g) == IF g.type = "Polygon" THEN <<g.coordinates>> ELSE g.coordinates

\* the parts of a union result, ordered by their left edge
RECURSIVE SortParts(_)
SortParts(S) ==
  IF S = {} THEN << >>
  ELSE LET m == CHOOSE p \in S : \A q \in S : p.lo <= q.lo
       IN  <<m>> \o SortParts(S \ {m})

\* turf.union of an accumulated geometry with one more polygon, when it
\* succeeds: the parts the polygon meets are fused with it
turfUnion(g, poly) ==
  LET parts == SeqToSet(GeomParts(g))
      hit   == {p \in parts : booleanIntersects(p, poly)} \cup {poly}
      fused == [lo     |-> CHOOSE a \in {p.lo : p \in hit} : \A p \in hit : a <= p.lo,
                hi     |-> CHOOSE b \in {p.hi : p \in hit} : \A p \in hit : b >= p.hi,
                closed |-> TRUE]
      out   == SortParts({p \in parts : ~booleanIntersects(p, poly)} \cup {fused})
  IN  IF Len(out) = 1 THEN PolygonGeom(out[1]) ELSE MultiPolygonGeom(out)

\* what one turf.union call can do (lines 261-267)
UnionOutcomes == {"ok", "throws", "null"}

(* -------------------------- merge: canonical --------------------------- *)
\* variant: the largest part, wherever the point is
RECURSIVE PickPartLargest(_, _, _, _, _)
PickPartLargest(parts, x, i, bestIdx, bestArea) ==
  IF i > Len(parts) THEN bestIdx
  ELSE IF turfPolygon(parts[i]) = null
  THEN PickPartLargest(parts, x, i + 1, bestIdx, bestArea)
  ELSE IF turfArea(parts[i]) > bestArea
       THEN PickPartLargest(parts, x, i + 1, i, turfArea(parts[i]))
       ELSE PickPartLargest(parts, x, i + 1, bestIdx, bestArea)

\* lines 281-298: bestIdx after the loop over the parts
RECURSIVE PickPart(_, _, _, _, _)
PickPart(parts, x, i, bestIdx, bestArea) ==
  IF i > Len(parts) THEN bestIdx
  ELSE IF turfPolygon(parts[i]) = null THEN PickPart(parts, x, i + 1, bestIdx, bestArea)
  ELSE IF booleanPointInPolygon(turfPoint(x), parts[i]) THEN i
  ELSE IF turfArea(parts[i]) > bestArea
       THEN PickPart(parts, x, i + 1, i, turfArea(parts[i]))
       ELSE PickPart(parts, x, i + 1, bestIdx, bestArea)

\* lines 275-312: finalGeometry from the union result and the cluster
ForceSinglePolygon(u, clusterCoords, x) ==
  IF u # null
  THEN IF u.type = "MultiPolygon" /\ Len(u.coordinates) > 1
       THEN PolygonGeom(u.coordinates[PickPart(u.coordinates, x, 1, 1, 0)])
       ELSE IF u.type = "MultiPolygon" /\ Len(u.coordinates) = 1
       THEN PolygonGeom(u.coordinates[1])
       ELSE u
  ELSE IF Len(clusterCoords) = 1
       THEN PolygonGeom(clusterCoords[1])
       ELSE MultiPolygonGeom(clusterCoords)

\* lines 315-318: turf.cleanCoords drops repeated vertices; it keeps the
\* type and the extent of every part, and closes nothing
cleanCoords(g) == g

(* -------------------------------- state -------------------------------- *)
\* Part I, the locals of one call of pickOrMergeSourceFeatures
VARIABLES
  mpc,            \* position in pickOrMergeSourceFeatures
  features,       \* argument
  lngLat,         \* argument, the x of the reference point
  options,        \* argument
  allCoords,      \* line 120
  turfPolys,      \* line 120
  seedIndex,      \* line 133
  seedArea,       \* line 134
  cluster,        \* line 206, in insertion order
  clusterArea,    \* line 207
  changed,        \* line 208
  scanI,          \* line 212, the for-loop index
  unionResult,    \* line 257
  foldI,          \* line 260, the fold index
  skipped,        \* the fold indices whose iteration ended in the catch of line 264
  scanSizes,      \* what an observer records: the size of the cluster at
                  \* the start of each scan of the expansion (line 211)
  mergeResult     \* the returned value

mvars == <<mpc, features, lngLat, options, faults, allCoords, turfPolys,
           seedIndex, seedArea, cluster, clusterArea, changed, scanI,
           unionResult, foldI, skipped, scanSizes, mergeResult>>

\* Part II, the page and its discovery runs
VARIABLES
  isLoadingBuilding,   \* line 332
  geoJSON,             \* line 330
  error,               \* line 331
  highlight,           \* the geometry of the highlight layer, lines 345-370
  viewport,            \* the last viewport move asked of the map
  runs                 \* one record per call of handleGetBuildingAtLocation

cvars == <<isLoadingBuilding, geoJSON, error, highlight, viewport, runs>>

VARIABLES
  isRunningTests,      \* line 335
  testAbortRef,        \* line 337, testAbortRef.current
  idx,                 \* line 772, the index of the next test coordinate,
                       \* one per handleRunAllTests closure (runner chain)
  testPc,              \* what each chain waits for: "idle" nothing,
                       \* "flush" the 300 ms timer of line 787, "poll" the
                       \* interval of line 792, "view" the 5 s timer of line 801
  abortedRuns,         \* what an observer records: the runs that were in
                       \* flight when the abort flag was last set
  stopped              \* what an observer records: the chains that had a
                       \* timer pending at a press of 'Stop Tests'

tvars == <<isRunningTests, testAbortRef, idx, testPc, abortedRuns, stopped>>

\* the API server, server/server.js
VARIABLES
  browserInstance,     \* server.js line 15: 0 for null, else a browser
  launches,            \* what an observer records: puppeteer.launch calls so
                       \* far; the k-th call starts browser k
  connected,           \* the browsers whose `connected` is true
  reqs                 \* one record per /get-boundary request: pc "new",
                       \* "launching" (awaiting puppeteer.launch, line 20),
                       \* "has" (holds `browser`, line 51), "done"

svars == <<browserInstance, launches, connected, reqs>>

vars == <<mvars, cvars, tvars, svars>>

MaxClusterArea == seedArea * AreaMultiplierOf(options)

\* { ...features[0], geometry }
WithGeometry(g) == [properties |-> features[1].properties, geometry |-> g]

ClusterCoords == [k \in 1..Len(cluster) |-> allCoords[cluster[k]]]

\* the single fragment returned without the wrapping of line 128
SingleFragmentRaw(coords) == features[1]

\* lines 127-129: the only fragment, wrapped as a Polygon
SingleFragment(coords) == WithGeometry(PolygonGeom(coords[1]))

MergeInit ==
  /\ mpc = "call"
  /\ \E n \in 0..MaxFrags : features \in FeatureLists(n)
  /\ lngLat \in ClickXs
  /\ options \in OptionSet
  /\ faults = << >>
  /\ allCoords = << >>
  /\ turfPolys = << >>
  /\ seedIndex = 0
  /\ seedArea = Infinity
  /\ cluster = << >>
  /\ clusterArea = 0
  /\ changed = FALSE
  /\ scanI = 0
  /\ unionResult = null
  /\ foldI = 0
  /\ skipped = {}
  /\ scanSizes = << >>
  /\ mergeResult = null

\* lines 113-129
MergeFlatten ==
  /\ mpc = "call"
  /\ LET ex == extractPolygonCoords(features)
     IN  /\ allCoords' = ex.coords
         /\ turfPolys' = ex.turfPolys
         /\ IF Len(features) = 0
            THEN mpc' = "done" /\ mergeResult' = null
            ELSE IF Len(ex.coords) = 0
            THEN mpc' = "done" /\ mergeResult' = features[1]
            ELSE IF Len(ex.coords) = 1
            THEN mpc' = "done" /\ mergeResult' = SingleFragment(ex.coords)
            ELSE mpc' = "seed" /\ mergeResult' = mergeResult
  /\ UNCHANGED <<features, lngLat, options, faults, seedIndex, seedArea, cluster,
                 clusterArea, changed, scanI, unionResult, foldI, skipped, scanSizes>>
  /\ UNCHANGED <<cvars, tvars, svars>>

\* lines 131-211: the seed, then the start of the first scan
MergeSelectSeed ==
  /\ mpc = "seed"
  /\ LET s == SelectSeed(allCoords, turfPolys, lngLat)
     IN  IF s[1] = 0
         THEN /\ mpc' = "done"
              /\ mergeResult' = features[1]
              /\ UNCHANGED <<seedIndex, seedArea, cluster, clusterArea, changed, scanI,
                             scanSizes>>
         ELSE IF SeedRaises(allCoords, turfPolys, lngLat)
         THEN /\ mpc' = "raised"
              /\ seedIndex' = s[1]
              /\ UNCHANGED <<seedArea, cluster, clusterArea, changed, scanI,
                             scanSizes, mergeResult>>
         ELSE /\ mpc' = "expand"
              /\ seedIndex' = s[1]
              /\ seedArea' = SeedAreaFixed(turfPolys, s[1], s[2])
              /\ cluster' = <<s[1]>>
              /\ clusterArea' = AreaOf(turfPolys, s[1])
              /\ changed' = FALSE
              /\ scanI' = 1
              /\ scanSizes' = <<1>>
              /\ mergeResult' = mergeResult
  /\ UNCHANGED <<features, lngLat, options, faults, allCoords, turfPolys,
                 unionResult, foldI, skipped>>
  /\ UNCHANGED <<cvars, tvars, svars>>

\* a scan that is never repeated
RescanNever(grown) == FALSE

\* a scan that is repeated whether or not it added a member
RescanAlways(grown) == TRUE

\* line 210, while (changed): another scan follows a scan that added a
\* member
Rescan(grown) == grown

\* lines 206-245 as one computation: the members when the while loop
\* ends, from the members and their area at visit i of a scan
RECURSIVE ExpandScan(_, _, _, _, _, _, _, _, _)
ExpandScan(tp, seed, x, maxClusterArea, maxDistanceKm, members, total, i, grown) ==
  IF i > Len(tp)
  THEN IF Rescan(grown)
       THEN ExpandScan(tp, seed, x, maxClusterArea, maxDistanceKm, members, total, 1, FALSE)
       ELSE members
  ELSE IF Admits(tp, seed, x, i, members, total, maxClusterArea, maxDistanceKm)
       THEN ExpandScan(tp, seed, x, maxClusterArea, maxDistanceKm,
                       members \cup {i}, total + AreaOf(tp, i), i + 1, TRUE)
       ELSE ExpandScan(tp, seed, x, maxClusterArea, maxDistanceKm,
                       members, total, i + 1, grown)

\* lines 206-245: the members of the cluster grown from `seed` over the
\* fragments tp
ExpandCluster(tp, seed, x, maxClusterArea, maxDistanceKm) ==
  ExpandScan(tp, seed, x, maxClusterArea, maxDistanceKm,
             {seed}, AreaOf(tp, seed), 1, FALSE)

\* lines 210-245: one visit of the for loop; after the last index the
\* while loop either starts the next scan or ends
MergeExpandStep ==
  /\ mpc = "expand"
  /\ LET add == Admits(turfPolys, seedIndex, lngLat, scanI, SeqToSet(cluster),
                       clusterArea, MaxClusterArea, MaxDistanceOf(options))
         now == changed \/ add
     IN  /\ cluster' = IF add THEN Append(cluster, scanI) ELSE cluster
         /\ clusterArea' = IF add THEN clusterArea + AreaOf(turfPolys, scanI)
                           ELSE clusterArea
         /\ IF scanI < Len(allCoords)
            THEN /\ scanI' = scanI + 1 /\ changed' = now /\ mpc' = mpc
                 /\ scanSizes' = scanSizes
            ELSE IF Rescan(now)
            THEN /\ scanI' = 1 /\ changed' = FALSE /\ mpc' = mpc
                 /\ scanSizes' = Append(scanSizes, Len(cluster'))
            ELSE /\ scanI' = scanI /\ changed' = FALSE /\ mpc' = "union"
                 /\ scanSizes' = scanSizes
  /\ UNCHANGED <<features, lngLat, options, faults, allCoords, turfPolys,
                 seedIndex, seedArea, unionResult, foldI, skipped, mergeResult>>
  /\ UNCHANGED <<cvars, tvars, svars>>

\* lines 247-259: a cluster of one is returned as it is; otherwise the
\* fold starts from the first member
MergeUnionBegin ==
  /\ mpc = "union"
  /\ IF Len(cluster) = 1
     THEN /\ mpc' = "done"
          /\ mergeResult' = WithGeometry(PolygonGeom(ClusterCoords[1]))
          /\ UNCHANGED <<unionResult, foldI>>
     ELSE /\ mergeResult' = mergeResult
          /\ IF turfPolygon(ClusterCoords[1]) = null
             THEN unionResult' = null /\ foldI' = foldI /\ mpc' = "canon"
             ELSE /\ unionResult' = PolygonGeom(turfPolygon(ClusterCoords[1]))
                  /\ foldI' = 2
                  /\ mpc' = "fold"
  /\ UNCHANGED <<features, lngLat, options, faults, allCoords, turfPolys,
                 seedIndex, seedArea, cluster, clusterArea, changed, scanI, skipped,
                 scanSizes>>
  /\ UNCHANGED <<cvars, tvars, svars>>

\* lines 260-268: one iteration of the fold
MergeUnionStep ==
  /\ mpc = "fold"
  /\ IF foldI > Len(cluster)
     THEN mpc' = "canon" /\ UNCHANGED <<unionResult, foldI, skipped>>
     ELSE \E outcome \in UnionOutcomes :
            IF turfPolygon(ClusterCoords[foldI]) = null \/ outcome = "throws"
            THEN /\ unionResult' = unionResult /\ foldI' = foldI + 1 /\ mpc' = mpc
                 /\ skipped' = skipped \cup {foldI}
            ELSE IF outcome = "null"
            THEN /\ unionResult' = null /\ foldI' = foldI /\ mpc' = "canon"
                 /\ skipped' = skipped \cup {foldI}
            ELSE /\ unionResult' = turfUnion(unionResult, ClusterCoords[foldI])
                 /\ foldI' = foldI + 1
                 /\ mpc' = mpc
                 /\ skipped' = skipped
  /\ UNCHANGED <<features, lngLat, options, faults, allCoords, turfPolys,
                 seedIndex, seedArea, cluster, clusterArea, changed, scanI,
                 scanSizes, mergeResult>>
  /\ UNCHANGED <<cvars, tvars, svars>>

\* lines 273-320: single polygon, cleanup (which may throw and is then
\* skipped), return
MergeFinish ==
  /\ mpc = "canon"
  /\ \E cleanThrows \in BOOLEAN :
       LET g == ForceSinglePolygon(unionResult, ClusterCoords, lngLat)
       IN  mergeResult' = WithGeometry(IF cleanThrows THEN g ELSE cleanCoords(g))
  /\ mpc' = "done"
  /\ UNCHANGED <<features, lngLat, options, faults, allCoords, turfPolys,
                 seedIndex, seedArea, cluster, clusterArea, changed, scanI,
                 unionResult, foldI, skipped, scanSizes>>
  /\ UNCHANGED <<cvars, tvars, svars>>

\* a call in which primitives throw on some of the polygons
MergeFaultyInit ==
  /\ mpc = "call"
  /\ \E n \in 0..MaxFrags :
       /\ features \in FaultyFeatureLists(n)
       /\ faults \in FaultAssignments(n)
  /\ lngLat \in FaultyClickXs
  /\ options \in OptionSet
  /\ allCoords = << >>
  /\ turfPolys = << >>
  /\ seedIndex = 0
  /\ seedArea = Infinity
  /\ cluster = << >>
  /\ clusterArea = 0
  /\ changed = FALSE
  /\ scanI = 0
  /\ unionResult = null
  /\ foldI = 0
  /\ skipped = {}
  /\ scanSizes = << >>
  /\ mergeResult = null

MergeNext ==
  \/ MergeFlatten
  \/ MergeSelectSeed
  \/ MergeExpandStep
  \/ MergeUnionBegin
  \/ MergeUnionStep
  \/ MergeFinish


(* ======================= Part II: the controller ======================= *)
(* ------------------------------ bounds --------------------------------- *)
\* candidate polygons of the controller have a diagonal of 0..MaxDiag
MaxDiag == 12
\* at most this many presses of "Get building at location" start a run
MaxRuns == 2
\* test coordinates the runner works through (TEST_COORDINATES is longer)
MaxTests == 2

(* ------------------------- program constants --------------------------- *)
\* App.jsx:11, in tenths of a zoom level
FLY_TO_ZOOM == 175
\* App.jsx:529, in tenths of a zoom level
ZOOM_CASCADE == <<135, 155, 175, 195>>
\* App.jsx:530
MAX_PASSES == 6
\* App.jsx:531, in percent
BBOX_GROWTH == 10
\* App.jsx:532, 10 m = 1 unit
POINT_BUFFER_M == 1

(* --------------------- geometry seen by the controller ----------------- *)
\* line 534: the controller's geometry is taken relative to the reference
\* point, which therefore sits at x = 0
clickPt == turfPoint(0)

\* polygons the renderer and the merge can hand to the controller: the point
\* is inside (lo = 0), within the 10 m buffer (lo = 1) or outside (lo = 2)
CPolySet == {[lo |-> a, hi |-> a + d, closed |-> TRUE] : a \in 0..2, d \in 0..MaxDiag}

\* the small polygons of which rendered MultiPolygons are made
CPartSet == {p \in CPolySet : p.hi - p.lo = 1}

\* what the renderer can answer: `rendered` are the geometries of the
\* feature under the point, `merged` the values pickOrMergeSourceFeatures
\* returns for the source features of one query
FullWorld ==
  [rendered |-> {PolygonGeom(p) : p \in CPolySet}
                \cup {MultiPolygonGeom(<<p, q>>) : p \in CPartSet, q \in CPartSet},
   merged   |-> {MakeFeature(1, PolygonGeom(p)) : p \in CPolySet}]

\* a world of two polygons, one around the point and one away from it
SmallWorld ==
  LET near == [lo |-> 0, hi |-> 1, closed |-> TRUE]
      far  == [lo |-> 2, hi |-> 3, closed |-> TRUE]
  IN  [rendered |-> {PolygonGeom(near), PolygonGeom(far)},
       merged   |-> {MakeFeature(1, PolygonGeom(near)), MakeFeature(1, PolygonGeom(far))}]

\* turf.booleanPointInPolygon on a Polygon or MultiPolygon geometry
pointInGeometry(pt, g) ==
  \E k \in 1..Len(GeomParts(g)) : booleanPointInPolygon(pt, GeomParts(g)[k])

\* turf.buffer(feat, radius): every part grown by the radius
turfBuffer(g, radius) ==
  LET grow(p) == [lo |-> p.lo - radius, hi |-> p.hi + radius, closed |-> TRUE]
  IN  IF g.type = "Polygon" THEN PolygonGeom(grow(g.coordinates))
      ELSE MultiPolygonGeom([k \in 1..Len(g.coordinates) |-> grow(g.coordinates[k])])

\* turf.bbox: <<minX, maxX>> over all parts
turfBbox(g) ==
  LET parts == SeqToSet(GeomParts(g))
  IN  <<CHOOSE a \in {p.lo : p \in parts} : \A p \in parts : a <= p.lo,
        CHOOSE b \in {p.hi : p \in parts} : \A p \in parts : b >= p.hi>>

\* lines 631-635: the diagonal of a bounding box
Diagonal(bboxGeo) == turfDistance(turfPoint(bboxGeo[1]), turfPoint(bboxGeo[2]))

\* variant: the first part is taken, wherever the point is
toSinglePolygonFirst(feature, x) ==
  IF feature.geometry = null THEN null
  ELSE IF feature.geometry.type = "Polygon"
  THEN PolygonGeom(feature.geometry.coordinates)
  ELSE IF feature.geometry.type = "MultiPolygon"
  THEN PolygonGeom(feature.geometry.coordinates[1])
  ELSE null

\* lines 33-52
toSinglePolygon(feature, x) ==
  IF feature.geometry = null THEN null
  ELSE IF feature.geometry.type = "Polygon"
  THEN PolygonGeom(feature.geometry.coordinates)
  ELSE IF feature.geometry.type = "MultiPolygon"
  THEN LET cs  == feature.geometry.coordinates
           hit == {k \in 1..Len(cs) : pointInRing(PointAt(x), Ring(cs[k]))}
       IN  IF hit # {}
           THEN PolygonGeom(cs[CHOOSE k \in hit : \A m \in hit : k <= m])
           ELSE PolygonGeom(cs[1])
  ELSE null

\* lines 54-61
buildGeoJSONFromFeature(feature, geometry) ==
  IF geometry = null \/ geometry.type \notin {"Polygon", "MultiPolygon"} THEN null
  ELSE [type |-> "Feature", properties |-> feature.properties, geometry |-> geometry]

\* lines 537-548
isPointInsideResult(geometry) ==
  IF geometry = null THEN FALSE
  ELSE \/ pointInGeometry(clickPt, geometry)
       \/ pointInGeometry(clickPt, turfBuffer(geometry, POINT_BUFFER_M))

(* --------------------------- controller state -------------------------- *)

\* The closure state of one call of handleGetBuildingAtLocation:
\*   pc            where the call waits: "flyIdle" / "fitIdle" for the map's
\*                 idle event after flyTo / fitBounds, "flyTimer" /
\*                 "fitTimer" for the 150 ms timer after it, "done";
\*                 "crashed" when a timer callback of the run ended with
\*                 an uncaught exception and registered nothing further
\*   zoomIndex, bestResult                           lines 680-681
\*   currentMerged, currentGeom, prevDiagonal, passNumber   lines 606-609
\* and what an observer of the call records:
\*   attempted     the zoom levels flown to (line 553), in order
\*   fitCount      fitBounds calls of the current level (line 649)
\*   grew          every convergence test of the current level saw growth
\*   reports       calls of the onResult callback (line 700)
\*   lastCandidate the last level result that had a geometry
\*   rejected      level results that failed validation (line 716)
\*   validated     the run ended on line 712
\*   queried       the merge output of the query made in the run's latest
\*                 timer callback (lines 612-620, 657-667), null inside
\*                 when the query or the merge failed
\*   measured      the diagonal computed by runPass (lines 630-637) in
\*                 the run's latest timer callback: the pass, the
\*                 diagonal, the previous one
\*   output        what the run published: none, a result or the error
NoOutput == [kind |-> "none"]
ErrorOutput == [kind |-> "error"]
ResultOutput(result) == [kind |-> "result", feature |-> result.feature,
                         geometry |-> result.geometry]

NewRun ==
  [pc |-> "new", zoomIndex |-> 0, bestResult |-> null,
   currentMerged |-> null, currentGeom |-> null, prevDiagonal |-> 0,
   passNumber |-> 0,
   attempted |-> << >>, fitCount |-> 0, grew |-> TRUE, reports |-> 0,
   lastCandidate |-> null, rejected |-> 0, validated |-> FALSE,
   queried |-> null, measured |-> null, output |-> NoOutput]

\* The state one handler works on: the run and the shared UI state.
Context(r) ==
  [run |-> runs[r], loading |-> isLoadingBuilding, geo |-> geoJSON,
   err |-> error, hl |-> highlight, view |-> viewport]

\* lines 685-694: the cascade is exhausted
FinishCascade(cx) ==
  LET best == cx.run.bestResult
  IN  IF best # null
      THEN [cx EXCEPT !.hl = best.geometry,
                      !.geo = buildGeoJSONFromFeature(best.feature, best.geometry),
                      !.loading = FALSE,
                      !.run.pc = "done",
                      !.run.output = ResultOutput(best)]
      ELSE [cx EXCEPT !.err = "No building found at this location.",
                      !.loading = FALSE,
                      !.run.pc = "done",
                      !.run.output = ErrorOutput]

\* variant: zoomIndex is not advanced
StartZoomNoAdvance(cx) ==
  LET zoom == ZOOM_CASCADE[cx.run.zoomIndex + 1]
  IN  [cx EXCEPT !.view = [move |-> "flyTo", zoom |-> zoom],
                 !.run.pc = "flyIdle",
                 !.run.currentMerged = null,
                 !.run.currentGeom = null,
                 !.run.prevDiagonal = 0,
                 !.run.passNumber = 0,
                 !.run.attempted = Append(@, zoom),
                 !.run.fitCount = 0,
                 !.run.grew = TRUE]

\* lines 697-700 and 551-554: the next zoom level is flown to and the
\* idle listener registered
StartZoom(cx) ==
  LET zoom == ZOOM_CASCADE[cx.run.zoomIndex + 1]
  IN  [cx EXCEPT !.view = [move |-> "flyTo", zoom |-> zoom],
                 !.run.zoomIndex = @ + 1,
                 !.run.pc = "flyIdle",
                 !.run.currentMerged = null,
                 !.run.currentGeom = null,
                 !.run.prevDiagonal = 0,
                 !.run.passNumber = 0,
                 !.run.attempted = Append(@, zoom),
                 !.run.fitCount = 0,
                 !.run.grew = TRUE]

\* lines 683-721, tryNextZoom
tryNextZoom(cx) ==
  IF cx.run.zoomIndex >= Len(ZOOM_CASCADE) THEN FinishCascade(cx) ELSE StartZoom(cx)

\* variant: an earlier unvalidated candidate is kept as best
KeepBestFirst(best, result) == IF best = null THEN result ELSE best

\* line 708
KeepBest(best, result) == result

\* variant: a candidate that fails validation is still published
AcceptsAlways(geometry) == TRUE

\* line 711
Accepts(geometry) == isPointInsideResult(geometry)

\* lines 700-720, the callback handed to discoverAtZoom
onResult(cx, result) ==
  LET c1 == [cx EXCEPT !.run.reports = @ + 1]
  IN  IF result = null \/ result.geometry = null
      THEN tryNextZoom(c1)
      ELSE LET c2 == [c1 EXCEPT !.run.bestResult = KeepBest(@, result),
                                !.run.lastCandidate = result]
           IN  IF Accepts(result.geometry)
               THEN [c2 EXCEPT !.hl = result.geometry,
                               !.geo = buildGeoJSONFromFeature(result.feature,
                                                               result.geometry),
                               !.loading = FALSE,
                               !.run.pc = "done",
                               !.run.validated = TRUE,
                               !.run.output = ResultOutput(result)]
               ELSE tryNextZoom([c2 EXCEPT !.run.rejected = @ + 1])

\* lines 626, 640: the value reported for the level
LevelResult(run) ==
  IF run.currentMerged # null
  THEN [feature |-> run.currentMerged, geometry |-> run.currentGeom]
  ELSE null

\* variant: the pass limit is off by one
PassLimitReachedLate(passNumber) == passNumber > MAX_PASSES + 1

\* line 625
PassLimitReached(passNumber) == passNumber > MAX_PASSES

\* variant: only a diagonal that shrank counts as converged
ConvergedOnShrink(passNumber, diagonal, prevDiagonal) ==
  /\ passNumber > 1
  /\ prevDiagonal > 0
  /\ 100 * (diagonal - prevDiagonal) < 0

\* lines 637-638: growth < BBOX_GROWTH, with growth = 1 when there is no
\* previous diagonal
Converged(passNumber, diagonal, prevDiagonal) ==
  /\ passNumber > 1
  /\ prevDiagonal > 0
  /\ 100 * (diagonal - prevDiagonal) < BBOX_GROWTH * prevDiagonal

\* what the bounding-box and diagonal computation of lines 630-635 can do;
\* no try block encloses it
GeoOutcomes == {"ok", "throws"}

\* variant: the re-query after fitBounds does not wait for the idle event
runPassNoWait(cx, geo) ==
  LET p  == cx.run.passNumber + 1
      c1 == [cx EXCEPT !.run.passNumber = p]
  IN  IF c1.run.currentGeom = null \/ PassLimitReached(p)
      THEN onResult(c1, LevelResult(c1.run))
      ELSE IF geo = "throws"
      THEN [c1 EXCEPT !.run.pc = "crashed"]
      ELSE LET bboxGeo  == turfBbox(c1.run.currentGeom)
               diagonal == Diagonal(bboxGeo)
               c2 == [c1 EXCEPT !.run.measured =
                        [pass |-> p, diagonal |-> diagonal,
                         prev |-> c1.run.prevDiagonal]]
           IN  IF Converged(p, diagonal, c2.run.prevDiagonal)
               THEN onResult(c2, LevelResult(c2.run))
               ELSE [c2 EXCEPT !.run.prevDiagonal = diagonal,
                               !.run.grew = @ /\ (p = 1 \/ diagonal > c2.run.prevDiagonal),
                               !.run.fitCount = @ + 1,
                               !.run.pc = "fitTimer",
                               !.view = [move |-> "fitBounds", bounds |-> bboxGeo,
                                         maxZoom |-> FLY_TO_ZOOM]]

\* lines 623-672, runPass up to the registration of the idle listener;
\* `geo` is the outcome of the computation of lines 630-635, whose
\* exception leaves runPass and the timer callback that called it
runPass(cx, geo) ==
  LET p  == cx.run.passNumber + 1
      c1 == [cx EXCEPT !.run.passNumber = p]
  IN  IF c1.run.currentGeom = null \/ PassLimitReached(p)
      THEN onResult(c1, LevelResult(c1.run))
      ELSE IF geo = "throws"
      THEN [c1 EXCEPT !.run.pc = "crashed"]
      ELSE LET bboxGeo  == turfBbox(c1.run.currentGeom)
               diagonal == Diagonal(bboxGeo)
               c2 == [c1 EXCEPT !.run.measured =
                        [pass |-> p, diagonal |-> diagonal,
                         prev |-> c1.run.prevDiagonal]]
           IN  IF Converged(p, diagonal, c2.run.prevDiagonal)
               THEN onResult(c2, LevelResult(c2.run))
               ELSE [c2 EXCEPT !.run.prevDiagonal = diagonal,
                               !.run.grew = @ /\ (p = 1 \/ diagonal > c2.run.prevDiagonal),
                               !.run.fitCount = @ + 1,
                               !.run.pc = "fitIdle",
                               !.view = [move |-> "fitBounds", bounds |-> bboxGeo,
                                         maxZoom |-> FLY_TO_ZOOM]]

\* the shared state after a handler that worked on run r
Commit(r, cx) ==
  /\ runs' = [runs EXCEPT ![r] = cx.run]
  /\ isLoadingBuilding' = cx.loading
  /\ geoJSON' = cx.geo
  /\ error' = cx.err
  /\ highlight' = cx.hl
  /\ viewport' = cx.view

InFlight(r) == runs[r].pc \notin {"new", "done"}

CtrlInit ==
  /\ isLoadingBuilding = FALSE
  /\ geoJSON = null
  /\ error = null
  /\ highlight = null
  /\ viewport = [move |-> "none"]
  /\ runs = << >>
  /\ isRunningTests = FALSE
  /\ testAbortRef = FALSE
  /\ idx = << >>
  /\ testPc = << >>
  /\ stopped = {}
  /\ abortedRuns = {}

\* lines 519-526 and 679-723, handleGetBuildingAtLocation after its input
\* check: the loading flag is set and the cascade starts
StartRun ==
  LET cx == [run |-> NewRun, loading |-> TRUE, geo |-> null,
             err |-> null, hl |-> null, view |-> viewport]
      c2 == tryNextZoom(cx)
  IN  /\ runs' = Append(runs, c2.run)
      /\ isLoadingBuilding' = c2.loading
      /\ geoJSON' = c2.geo
      /\ error' = c2.err
      /\ highlight' = c2.hl
      /\ viewport' = c2.view

\* lines 515-526 and 723, a press of the button of lines 856-864, which
\* is disabled while isLoadingBuilding; `quota` caps the number of runs
PressGetBuilding(quota) ==
  /\ ~isLoadingBuilding
  /\ Len(runs) < quota
  /\ \E validInput \in BOOLEAN :
       IF ~validInput
       THEN /\ error' = "Enter valid latitude and longitude."
            /\ UNCHANGED <<isLoadingBuilding, geoJSON, highlight, viewport, runs>>
       ELSE StartRun
  /\ UNCHANGED <<mvars, tvars, svars>>

\* the map's idle event: every listener registered with map.once('idle')
\* (lines 554, 654) runs and starts its 150 ms timer
MapIdle ==
  /\ \E r \in 1..Len(runs) : runs[r].pc \in {"flyIdle", "fitIdle"}
  /\ runs' = [r \in 1..Len(runs) |->
                IF runs[r].pc = "flyIdle"
                THEN [runs[r] EXCEPT !.pc = "flyTimer", !.measured = null,
                                     !.queried = null]
                ELSE IF runs[r].pc = "fitIdle"
                THEN [runs[r] EXCEPT !.pc = "fitTimer", !.measured = null,
                                     !.queried = null]
                ELSE runs[r]]
  /\ UNCHANGED <<isLoadingBuilding, geoJSON, error, highlight, viewport>>
  /\ UNCHANGED <<mvars, tvars, svars>>

\* lines 555-675, the timer callback after flyTo: nothing rendered under
\* the point
FlyTimerNothing(r) ==
  /\ runs[r].pc = "flyTimer"
  /\ Commit(r, onResult(Context(r), null))
  /\ UNCHANGED <<mvars, tvars, svars>>

\* ... a rendered feature for which no identity filter returns a fragment
\* (lines 598-603)
FlyTimerNoFilter(r, world) ==
  /\ runs[r].pc = "flyTimer"
  /\ \E g \in world.rendered :
       LET building == MakeFeature(1, g)
           single   == toSinglePolygon(building, clickPt.x)
           geom     == IF single # null THEN single ELSE building.geometry
       IN  Commit(r, onResult(Context(r), [feature |-> building, geometry |-> geom]))
  /\ UNCHANGED <<mvars, tvars, svars>>

\* variant: a query or merge that fails drops the candidate held so far
AfterQueryForgets(run, merged) ==
  IF merged # null
  THEN [run EXCEPT !.currentMerged = merged,
                   !.currentGeom = merged.geometry,
                   !.queried = [merged |-> merged]]
  ELSE [run EXCEPT !.currentMerged = null,
                   !.queried = [merged |-> null]]

\* lines 612-620 and 657-667: the candidate after a query; merged = null
\* when nothing is returned, the merge has no geometry or something throws
AfterQuery(run, merged) ==
  IF merged # null
  THEN [run EXCEPT !.currentMerged = merged,
                   !.currentGeom = merged.geometry,
                   !.queried = [merged |-> merged]]
  ELSE [run EXCEPT !.queried = [merged |-> null]]

\* ... a rendered feature with a working filter: the initial query and
\* merge (lines 605-621), then the first runPass (line 674)
FlyTimerExpand(r, world) ==
  /\ runs[r].pc = "flyTimer"
  /\ \E g \in world.rendered, merged \in world.merged \cup {null},
        geo \in GeoOutcomes :
       LET cx == Context(r)
           c1 == [cx EXCEPT !.run = AfterQuery([cx.run EXCEPT !.currentGeom = g], merged)]
       IN  Commit(r, runPass(c1, geo))
  /\ UNCHANGED <<mvars, tvars, svars>>

\* lines 655-670, the timer callback after fitBounds: re-query, merge,
\* runPass
FitTimer(r, world) ==
  /\ runs[r].pc = "fitTimer"
  /\ \E merged \in world.merged \cup {null}, geo \in GeoOutcomes :
       LET cx == Context(r)
           c1 == [cx EXCEPT !.run = AfterQuery(cx.run, merged)]
       IN  Commit(r, runPass(c1, geo))
  /\ UNCHANGED <<mvars, tvars, svars>>

\* lines 447-468, a click on the map: the feature under the click (or
\* nothing) is published and isLoadingBuilding is cleared
MapClick(world) ==
  /\ \E feature \in world.merged \cup {MakeFeature(1, g) : g \in world.rendered} \cup {null} :
       IF feature # null
       THEN /\ highlight' = feature.geometry
            /\ geoJSON' = buildGeoJSONFromFeature(feature, feature.geometry)
       ELSE /\ highlight' = null
            /\ geoJSON' = null
  /\ isLoadingBuilding' = FALSE
  /\ UNCHANGED <<error, viewport, runs>>
  /\ UNCHANGED <<mvars, tvars, svars>>

(* ----------------------------- test runner ---------------------------- *)

\* handleRunAllTests closures (runner chains) started in one behaviour
MaxChains == 2

\* a chain with a timer pending
Pending(c) == testPc[c] # "idle"

\* lines 774-785, runNext of chain c: the chain stops when the abort flag
\* is set or it is out of coordinates, else it fills in the next coordinate
\* and starts the 300 ms timer
runNext(c, i) ==
  IF testAbortRef' \/ i >= MaxTests
  THEN /\ isRunningTests' = FALSE
       /\ idx' = [idx EXCEPT ![c] = i]
       /\ testPc' = [testPc EXCEPT ![c] = "idle"]
  ELSE /\ isRunningTests' = isRunningTests
       /\ idx' = [idx EXCEPT ![c] = i + 1]
       /\ testPc' = [testPc EXCEPT ![c] = "flush"]

\* lines 763-771 and 806, a press of 'Run All Tests' (lines 823-830,
\* enabled unless an extraction is loading) while isRunningTests is false:
\* a new closure with its own idx; timers of earlier closures stay pending
RunAllTestsStart ==
  /\ ~isRunningTests
  /\ ~isLoadingBuilding
  /\ Len(idx) < MaxChains
  /\ testAbortRef' = FALSE
  /\ IF 0 >= MaxTests
     THEN /\ isRunningTests' = FALSE
          /\ idx' = Append(idx, 0)
          /\ testPc' = Append(testPc, "idle")
     ELSE /\ isRunningTests' = TRUE
          /\ idx' = Append(idx, 1)
          /\ testPc' = Append(testPc, "flush")
  /\ abortedRuns' = {}
  /\ UNCHANGED stopped
  /\ UNCHANGED <<mvars, cvars, svars>>

\* lines 764-769, a press of 'Stop Tests'
RunAllTestsAbort ==
  /\ isRunningTests
  /\ testAbortRef' = TRUE
  /\ isRunningTests' = FALSE
  /\ abortedRuns' = {r \in 1..Len(runs) : InFlight(r)}
  /\ stopped' = stopped \cup {c \in 1..Len(idx) : Pending(c)}
  /\ UNCHANGED <<idx, testPc>>
  /\ UNCHANGED <<mvars, cvars, svars>>

\* lines 787-792, the 300 ms timer of chain c: the runner clicks the
\* button (a click on a disabled button starts nothing) and starts polling
TestClick(c) ==
  /\ testPc[c] = "flush"
  /\ Len(runs) < MaxTests
  /\ IF isLoadingBuilding THEN UNCHANGED cvars ELSE StartRun
  /\ testPc' = [testPc EXCEPT ![c] = "poll"]
  /\ UNCHANGED <<isRunningTests, testAbortRef, idx, abortedRuns, stopped>>
  /\ UNCHANGED <<mvars, svars>>

\* lines 792-803, a tick of the poll of chain c that ends it: the abort
\* flag is set, or the button is enabled again and the 5 s timer starts
TestPoll(c) ==
  /\ testPc[c] = "poll"
  /\ testAbortRef \/ ~isLoadingBuilding
  /\ testPc' = [testPc EXCEPT ![c] = IF testAbortRef THEN "idle" ELSE "view"]
  /\ UNCHANGED <<isRunningTests, testAbortRef, idx, abortedRuns, stopped>>
  /\ UNCHANGED <<mvars, cvars, svars>>

\* line 801, the 5 s timer of chain c calls runNext
TestRunNext(c) ==
  /\ testPc[c] = "view"
  /\ UNCHANGED <<testAbortRef, abortedRuns, stopped>>
  /\ runNext(c, idx[c])
  /\ UNCHANGED <<mvars, cvars, svars>>

(* ===================== Part III: the API server ======================= *)
\* concurrent /get-boundary requests
MaxRequests == 3

Reqs == 1..MaxRequests

\* server.js line 15 and the requests not yet received
ServerStart ==
  /\ browserInstance = 0
  /\ launches = 0
  /\ connected = {}
  /\ reqs = [q \in Reqs |-> [pc |-> "new", browser |-> 0]]

\* server.js line 18, the test of getBrowser negated: a browser must be
\* launched
LaunchNeeded == ~(browserInstance # 0 /\ browserInstance \in connected)

\* server.js lines 38-51 and 17-20: a request with valid lat/lng calls
\* getBrowser, which returns the singleton or starts puppeteer.launch
GetBrowserCall(q) ==
  /\ reqs[q].pc = "new"
  /\ IF LaunchNeeded
     THEN /\ launches' = launches + 1
          /\ reqs' = [reqs EXCEPT ![q] = [pc |-> "launching", browser |-> launches + 1]]
     ELSE /\ launches' = launches
          /\ reqs' = [reqs EXCEPT ![q] = [pc |-> "has", browser |-> browserInstance]]
  /\ UNCHANGED <<browserInstance, connected>>
  /\ UNCHANGED <<mvars, cvars, tvars>>

\* server.js lines 20-33: puppeteer.launch resolves; the browser is
\* assigned to the singleton and returned
LaunchResolves(q) ==
  /\ reqs[q].pc = "launching"
  /\ browserInstance' = reqs[q].browser
  /\ connected' = connected \cup {reqs[q].browser}
  /\ reqs' = [reqs EXCEPT ![q].pc = "has"]
  /\ UNCHANGED launches
  /\ UNCHANGED <<mvars, cvars, tvars>>

\* server.js lines 20 and 86-88: puppeteer.launch rejects; the request
\* answers 500 and the singleton is undefined no longer than before
LaunchRejects(q) ==
  /\ reqs[q].pc = "launching"
  /\ reqs' = [reqs EXCEPT ![q] = [pc |-> "done", browser |-> 0]]
  /\ UNCHANGED <<browserInstance, launches, connected>>
  /\ UNCHANGED <<mvars, cvars, tvars>>

\* server.js lines 52-94: the page is opened, evaluated and closed, and
\* the request is answered
RequestEnds(q) ==
  /\ reqs[q].pc = "has"
  /\ reqs' = [reqs EXCEPT ![q].pc = "done"]
  /\ UNCHANGED <<browserInstance, launches, connected>>
  /\ UNCHANGED <<mvars, cvars, tvars>>

\* a browser process ends or loses its connection: browser.connected
\* becomes false (read at server.js line 18)
BrowserDisconnects(b) ==
  /\ b \in connected
  /\ connected' = connected \ {b}
  /\ UNCHANGED <<browserInstance, launches, reqs>>
  /\ UNCHANGED <<mvars, cvars, tvars>>

ServerNext ==
  \/ \E q \in Reqs : GetBrowserCall(q)
  \/ \E q \in Reqs : LaunchResolves(q)
  \/ \E q \in Reqs : LaunchRejects(q)
  \/ \E q \in Reqs : RequestEnds(q)
  \/ \E b \in 1..MaxRequests : BrowserDisconnects(b)

\* the merge is not running
MergeOff ==
  /\ mpc = "off"
  /\ features = << >>
  /\ lngLat = 0
  /\ options = [areaMultiplier |-> 0, maxDistanceKm |-> 0]
  /\ faults = << >>
  /\ allCoords = << >>
  /\ turfPolys = << >>
  /\ seedIndex = 0
  /\ seedArea = Infinity
  /\ cluster = << >>
  /\ clusterArea = 0
  /\ changed = FALSE
  /\ scanI = 0
  /\ unionResult = null
  /\ foldI = 0
  /\ skipped = {}
  /\ scanSizes = << >>
  /\ mergeResult = null

\* one discovery run alone, the renderer answering from the full world
DiscoverNext ==
  \/ PressGetBuilding(1)
  \/ MapIdle
  \/ \E r \in 1..Len(runs) : FlyTimerNothing(r)
  \/ \E r \in 1..Len(runs) : FlyTimerNoFilter(r, FullWorld)
  \/ \E r \in 1..Len(runs) : FlyTimerExpand(r, FullWorld)
  \/ \E r \in 1..Len(runs) : FitTimer(r, FullWorld)

DiscoverInit ==
  /\ MergeOff
  /\ CtrlInit
  /\ ServerStart

SpecDiscover == DiscoverInit /\ [][DiscoverNext]_vars

\* the page: presses, map clicks, idle events and timers interleaved
UINext ==
  \/ PressGetBuilding(MaxRuns)
  \/ MapClick(SmallWorld)
  \/ MapIdle
  \/ \E r \in 1..Len(runs) : FlyTimerNothing(r)
  \/ \E r \in 1..Len(runs) : FlyTimerNoFilter(r, SmallWorld)
  \/ \E r \in 1..Len(runs) : FlyTimerExpand(r, SmallWorld)
  \/ \E r \in 1..Len(runs) : FitTimer(r, SmallWorld)

SpecUI == DiscoverInit /\ [][UINext]_vars

\* the page driven by the test runner
TestsNext ==
  \/ RunAllTestsStart
  \/ RunAllTestsAbort
  \/ \E c \in 1..Len(idx) : TestClick(c)
  \/ \E c \in 1..Len(idx) : TestPoll(c)
  \/ \E c \in 1..Len(idx) : TestRunNext(c)
  \/ MapIdle
  \/ \E r \in 1..Len(runs) : FlyTimerNothing(r)
  \/ \E r \in 1..Len(runs) : FlyTimerNoFilter(r, SmallWorld)
  \/ \E r \in 1..Len(runs) : FlyTimerExpand(r, SmallWorld)
  \/ \E r \in 1..Len(runs) : FitTimer(r, SmallWorld)

SpecTests == DiscoverInit /\ [][TestsNext]_vars

\* one call of the merge on every input of FeatureLists
MergeCallInit ==
  /\ MergeInit
  /\ CtrlInit
  /\ ServerStart

SpecMerge == MergeCallInit /\ [][MergeNext]_vars

\* the canonical step of the merge alone (lines 273-320), applied to every
\* union result of up to MaxFrags well-formed parts: a Polygon or a
\* MultiPolygon of one part or more
CanonUnions ==
  {PolygonGeom(p) : p \in {q \in PolySet : q.closed}}
  \cup UNION {{MultiPolygonGeom(ps) : ps \in [1..n -> {q \in PolySet : q.closed}]} :
              n \in 1..MaxFrags}

CanonInit ==
  /\ mpc = "canon"
  /\ unionResult \in CanonUnions
  /\ lngLat \in ClickXs
  /\ options \in OptionSet
  /\ features = <<MakeFeature(1, unionResult)>>
  /\ faults = << >>
  /\ allCoords = GeomParts(unionResult)
  /\ turfPolys = GeomParts(unionResult)
  /\ seedIndex = 1
  /\ seedArea = turfArea(GeomParts(unionResult)[1])
  /\ cluster = [k \in 1..Len(GeomParts(unionResult)) |-> k]
  /\ clusterArea = 0
  /\ changed = FALSE
  /\ scanI = 0
  /\ foldI = 0
  /\ skipped = {}
  /\ scanSizes = << >>
  /\ mergeResult = null
  /\ CtrlInit
  /\ ServerStart

\* the server alone, its requests interleaved
ServerInit ==
  /\ MergeOff
  /\ CtrlInit
  /\ ServerStart

SpecServer == ServerInit /\ [][ServerNext]_vars

SpecCanon == CanonInit /\ [][MergeFinish]_vars

\* one call of the merge on well-formed polygons, with primitives that throw
MergeFaultyCallInit ==
  /\ MergeFaultyInit
  /\ CtrlInit
  /\ ServerStart

SpecMergeFaulty == MergeFaultyCallInit /\ [][MergeNext]_vars

(* ======================= properties of the merge ======================= *)
Frags == 1..Len(allCoords)
Valid(i) == turfPolys[i] # null
Members == SeqToSet(cluster)
\* the seed has been chosen (the merge is past line 182 with a seed)
Seeded == seedIndex # 0
\* the guarded expansion has ended
Expanded == mpc \in {"union", "fold", "canon"} \/ (mpc = "done" /\ Seeded)
\* the rigorous test of lines 136-139 on fragment i
ContainsRigorous(i) == Valid(i) /\ booleanPointInPolygon(turfPoint(lngLat), turfPolys[i])
\* the raw-ring test of line 154 on fragment i
ContainsRaw(i) == pointInRing(PointAt(lngLat), Ring(allCoords[i]))
\* seed selection has run (more than one fragment, the call is past it)
PastSeed == Len(allCoords) >= 2 /\ mpc \notin {"call", "seed"}

\* C1: whenever the input flattens to at least one fragment, the geometry
\* of the value merge returns has type Polygon, never MultiPolygon.
C1_OutputAlwaysPolygon ==
  (mpc = "done" /\ Len(allCoords) >= 1) => mergeResult.geometry.type = "Polygon"

\* C2: at every point of the guarded expansion and at its end the total
\* area of the cluster is at most seedArea * areaMultiplier, whatever the
\* seed's area is.
C2_ClusterAreaWithinGuard ==
  Seeded => clusterArea <= seedArea * AreaMultiplierOf(options)

\* C3: a fragment whose centroid is farther than maxDistanceKm from the
\* seed centroid is never a member of the cluster, in any pass.
C3_FarFragmentNeverMember ==
  Seeded =>
    \A i \in Frags \ {seedIndex} :
      (Valid(i) /\ turfDistance(SeedCentroid(turfPolys, seedIndex, lngLat),
                                turfCentroid(turfPolys[i])) > MaxDistanceOf(options))
        => i \notin Members

\* C3 witness: the expansion has ended and left out a far fragment that
\* intersects a member and fits the area guard.
C3_Witness ==
  /\ Expanded
  /\ \E i \in Frags \ Members :
       /\ Valid(i)
       /\ turfDistance(SeedCentroid(turfPolys, seedIndex, lngLat),
                       turfCentroid(turfPolys[i])) > MaxDistanceOf(options)
       /\ TouchesCluster(turfPolys, i, Members)
       /\ MaxClusterArea > 0
       /\ clusterArea + AreaOf(turfPolys, i) <= MaxClusterArea

\* C4: when some fragment contains the reference point under the rigorous
\* test, the seed is one of those fragments and none of them is smaller.
C4_SeedIsSmallestContaining ==
  (PastSeed /\ \E i \in Frags : ContainsRigorous(i)) =>
    /\ Seeded
    /\ ContainsRigorous(seedIndex)
    /\ \A j \in Frags :
         ContainsRigorous(j) => turfArea(turfPolys[seedIndex]) <= turfArea(turfPolys[j])

\* C4 witness: two overlapping fragments contain the point, the larger
\* comes first in the list, and the smaller one is the seed.
C4_Witness ==
  /\ PastSeed
  /\ Seeded
  /\ \E j \in Frags :
       /\ j < seedIndex
       /\ ContainsRigorous(j)
       /\ ContainsRigorous(seedIndex)
       /\ turfArea(turfPolys[j]) > turfArea(turfPolys[seedIndex])

\* C5: seed selection follows the precedence rigorous containment, raw
\* ring containment, nearest centroid; with the point in no fragment and a
\* valid fragment present the seed is a valid fragment of least centroid
\* distance, and the no-seed return of line 182 is not taken.
C5_FallbackChain ==
  PastSeed =>
    /\ (\E i \in Frags : ContainsRigorous(i)) => (Seeded /\ ContainsRigorous(seedIndex))
    /\ ((\A i \in Frags : ~ContainsRigorous(i)) /\ (\E i \in Frags : ContainsRaw(i)))
         => (Seeded /\ ContainsRaw(seedIndex)
             /\ \A j \in Frags : ContainsRaw(j) => seedIndex <= j)
    /\ ((\A i \in Frags : ~ContainsRigorous(i) /\ ~ContainsRaw(i))
          /\ (\E i \in Frags : Valid(i)))
         => /\ Seeded
            /\ Valid(seedIndex)
            /\ \A j \in Frags :
                 Valid(j) =>
                   turfDistance(turfPoint(lngLat), turfCentroid(turfPolys[seedIndex]))
                     <= turfDistance(turfPoint(lngLat), turfCentroid(turfPolys[j]))

\* C5 witness: no fragment contains the point, a nearer valid fragment
\* follows a farther one, and the nearer one has become the seed.
C5_Witness ==
  /\ PastSeed
  /\ Seeded
  /\ \A i \in Frags : ~ContainsRigorous(i) /\ ~ContainsRaw(i)
  /\ \E j \in Frags :
       /\ j < seedIndex
       /\ Valid(j)
       /\ turfDistance(turfPoint(lngLat), turfCentroid(turfPolys[j]))
            > turfDistance(turfPoint(lngLat), turfCentroid(turfPolys[seedIndex]))

(* ===================== properties of the controller ==================== *)
Runs == 1..Len(runs)
\* the zoom levels of the cascade as the spec lists them, in tenths
CascadeOrder == <<135, 155, 175, 195>>
IsPrefix(a, b) == Len(a) <= Len(b) /\ \A k \in 1..Len(a) : a[k] = b[k]
\* the point is in the geometry, or within 10 m of it
ContainsPointOrNear(g) ==
  \E k \in 1..Len(GeomParts(g)) :
    GeomParts(g)[k].lo - 1 <= clickPt.x /\ clickPt.x <= GeomParts(g)[k].hi + 1
\* the cascade of run r has been tried to its end
Exhausted(r) == runs[r].pc = "done" /\ ~runs[r].validated

\* C6: at most one discovery run is in flight at any time, whatever the
\* interleaving of button presses, map clicks, idle events and timers.
C6_AtMostOneRunInFlight ==
  Cardinality({r \in Runs : InFlight(r)}) <= 1

\* C7: within a run the zoom levels are attempted in the order 13.5, 15.5,
\* 17.5, 19.5, each at most once; once a candidate validates it is the
\* run's output, and the run attempts no further level and moves the
\* viewport no more.
C7_CascadeOrderAndStop ==
  /\ [](\A r \in Runs :
          /\ IsPrefix(runs[r].attempted, CascadeOrder)
          /\ runs[r].validated =>
               /\ runs[r].pc = "done"
               /\ runs[r].output = ResultOutput(runs[r].lastCandidate))
  /\ [][\A r \in Runs :
          runs[r].validated => (runs'[r] = runs[r] /\ viewport' = viewport)]_vars

\* C7 witness: a run validated at the second level, having attempted
\* 13.5 and 15.5 and nothing else.
C7_Witness ==
  \E r \in Runs :
    /\ runs[r].validated
    /\ runs[r].attempted = <<135, 155>>

\* C8: a candidate that contains the point neither directly nor within
\* the buffer never ends the run before the last level; a candidate that
\* does is the run's output, whatever earlier levels produced.
C8_ValidationEscalation ==
  \A r \in Runs :
    /\ (runs[r].pc = "done" /\ runs[r].lastCandidate # null
          /\ ~ContainsPointOrNear(runs[r].lastCandidate.geometry))
         => Len(runs[r].attempted) = Len(CascadeOrder)
    /\ (runs[r].lastCandidate # null
          /\ ContainsPointOrNear(runs[r].lastCandidate.geometry))
         => /\ runs[r].pc = "done"
            /\ runs[r].output = ResultOutput(runs[r].lastCandidate)
            /\ geoJSON = buildGeoJSONFromFeature(runs[r].lastCandidate.feature,
                                                 runs[r].lastCandidate.geometry)
    /\ (runs[r].pc # "done" /\ runs[r].rejected > 0)
         => runs[r].bestResult = runs[r].lastCandidate

\* C8 witness: the first level's candidate failed validation, the second
\* level's candidate lies within the buffer only and is the output.
C8_Witness ==
  \E r \in Runs :
    /\ runs[r].pc = "done"
    /\ runs[r].attempted = <<135, 155>>
    /\ runs[r].rejected = 1
    /\ ~pointInGeometry(clickPt, runs[r].output.geometry)
    /\ ContainsPointOrNear(runs[r].output.geometry)

\* C9: when the cascade ends without a validated candidate, the output is
\* the candidate of the last level that produced one, and the run fails
\* with "No building found" exactly when no level produced any.
C9_BestSoFarOrError ==
  \A r \in Runs :
    /\ Exhausted(r) =>
         IF runs[r].lastCandidate # null
         THEN /\ runs[r].output = ResultOutput(runs[r].lastCandidate)
              /\ geoJSON = buildGeoJSONFromFeature(runs[r].lastCandidate.feature,
                                                   runs[r].lastCandidate.geometry)
              /\ highlight = runs[r].lastCandidate.geometry
         ELSE /\ runs[r].output = ErrorOutput
              /\ error = "No building found at this location."
              /\ geoJSON = null
    /\ (runs[r].output = ErrorOutput) <=> (Exhausted(r) /\ runs[r].lastCandidate = null)

\* C9 witness: the cascade is exhausted, two levels produced candidates
\* that failed validation, the last level produced nothing, and the output
\* is the later of the two candidates.
C9_Witness ==
  \E r \in Runs :
    /\ Exhausted(r)
    /\ runs[r].rejected = 2
    /\ runs[r].currentMerged = null
    /\ runs[r].output = ResultOutput(runs[r].lastCandidate)

\* C10: a level issues at most MAX_PASSES = 6 fitBounds moves, the timer
\* after the sixth reports the level's result, and every level is reported
\* exactly once.
C10_PassBound ==
  /\ [](\A r \in Runs :
          /\ runs[r].fitCount <= 6
          /\ runs[r].reports = IF runs[r].pc = "done" THEN Len(runs[r].attempted)
                               ELSE Len(runs[r].attempted) - 1)
  /\ [][\A r \in Runs :
          (runs[r].pc = "fitTimer" /\ runs[r].fitCount = 6 /\ runs'[r] # runs[r])
            => runs'[r].reports = runs[r].reports + 1]_vars

\* C10 witness: a level ended after six fitBounds moves, the diagonal
\* having grown on every pass.
C10_Witness ==
  \E r \in Runs :
    /\ runs[r].pc = "done"
    /\ runs[r].fitCount = 6
    /\ runs[r].grew
    /\ runs[r].prevDiagonal > 0

\* a callback of run r is registered: the idle listener or the timer
PendingCallback(r) ==
  ENABLED (MapIdle \/ FlyTimerNothing(r) \/ FitTimer(r, FullWorld))

\* C11: every discovery run ends with a published result or the "No
\* building found" error and the loading flag cleared; whatever the
\* controller's own geometry computations do, an unfinished run always
\* has its next callback registered, so settlement events carry it to its end.
C11_RunEndsWithOutcome ==
  \A r \in Runs :
    IF runs[r].pc = "done"
    THEN /\ runs[r].output.kind \in {"result", "error"}
         /\ ~isLoadingBuilding
    ELSE PendingCallback(r)

(* ================= properties of the merge under failures ============== *)
\* C12: whatever primitives fail, merge returns and never raises, and a
\* failure concerns only its own fragment: the polygon the merge holds for
\* fragment i is the polygon of fragment i's own coordinates, or none.
C12_FailuresStayLocal ==
  /\ mpc # "raised"
  /\ \A i \in Frags :
       turfPolys[i] # null => turfPolys[i] = turfPolygon(allCoords[i])

\* C13: once the abort flag is set while a discovery run is in flight, no
\* timer callback of that run issues a further viewport move or registers
\* a further wait for the map's idle event: the run does not go from a
\* timer to a wait.
C13_AbortStopsRun ==
  [][testAbortRef =>
       \A r \in abortedRuns : runs[r].pc \in {"flyTimer", "fitTimer"}
                                => /\ runs'[r].pc \notin {"flyIdle", "fitIdle"}
                                   /\ viewport' = viewport]_vars

\* the union of the members of the cluster from position k on, those in
\* `out` left aside, accumulated onto acc
RECURSIVE UnionExcluding(_, _, _)
UnionExcluding(acc, k, out) ==
  IF k > Len(cluster) THEN acc
  ELSE IF k \in out THEN UnionExcluding(acc, k + 1, out)
  ELSE UnionExcluding(turfUnion(acc, ClusterCoords[k]), k + 1, out)

\* C14: when the union with some members failed (an exception, or no
\* result), the geometry returned is the one built from the union of the
\* other members, the failed ones left aside.
C14_UnionFailureExcludesOnlyMember ==
  (/\ mpc = "done"
   /\ skipped # {}
   /\ turfPolygon(ClusterCoords[1]) # null)
  => mergeResult.geometry =
       ForceSinglePolygon(UnionExcluding(PolygonGeom(ClusterCoords[1]), 2, skipped),
                          ClusterCoords, lngLat)

\* C15: when the flattening yields exactly one fragment, the merge returns
\* a single Polygon with that fragment's coordinates as they came in,
\* with the properties of the first feature, and neither a seed nor a
\* cluster has been computed, whatever the click point and the guards.
C15_SingleFragmentIdentity ==
  (mpc = "done" /\ Len(allCoords) = 1)
  => /\ mergeResult = [properties |-> features[1].properties,
                        geometry |-> [type |-> "Polygon", coordinates |-> allCoords[1]]]
     /\ allCoords = FlattenFrom(features, 1)
     /\ seedIndex = 0
     /\ cluster = << >>

\* a single part of a MultiPolygon, the click outside it, both guards set
C15_Witness ==
  /\ mpc = "done"
  /\ Len(allCoords) = 1
  /\ features[1].geometry.type = "MultiPolygon"
  /\ ~ContainsRaw(1)
  /\ options.areaMultiplier # 0
  /\ options.maxDistanceKm # 0
  /\ mergeResult.geometry.type = "Polygon"

\* C16: when the expansion has ended, no fragment outside the cluster is
\* one the loop would add on a further visit: none passes the distance
\* guard, the area guard and the adjacency test against the final cluster.
C16_ExpansionFixedPoint ==
  Expanded =>
    \A i \in Frags \ Members :
      ~Admits(turfPolys, seedIndex, lngLat, i, Members, clusterArea,
              MaxClusterArea, MaxDistanceOf(options))

\* a fragment passed over in one scan joined in a later one: it comes
\* before the member admitted just ahead of it, and does not touch the seed
C16_Witness ==
  /\ Expanded
  /\ \E k \in 2..(Len(cluster) - 1) :
       /\ cluster[k + 1] < cluster[k]
       /\ ~booleanIntersects(turfPolys[cluster[k + 1]], turfPolys[seedIndex])

\* the orders in which n fragments can be handed over
Perms(n) == {f \in [1..n -> 1..n] : \A a, b \in 1..n : f[a] = f[b] => a = b}

\* the members, as fragments of the list in hand, of the cluster the
\* expansion builds when the fragments are handed over in the order f
MembersInOrder(f) ==
  LET tp   == [k \in 1..Len(turfPolys) |-> turfPolys[f[k]]]
      seed == CHOOSE k \in 1..Len(turfPolys) : f[k] = seedIndex
  IN  {f[k] : k \in ExpandCluster(tp, seed, lngLat, MaxClusterArea, MaxDistanceOf(options))}

AllValid == \A i \in Frags : Valid(i)

RECURSIVE SumAreas(_)
SumAreas(S) ==
  IF S = {} THEN 0
  ELSE LET i == CHOOSE j \in S : TRUE IN AreaOf(turfPolys, i) + SumAreas(S \ {i})

\* the area guard cannot turn a candidate away
AreaGuardIdle == MaxClusterArea <= 0 \/ SumAreas(Frags) <= MaxClusterArea

\* C17 (as stated): for the same fragments, the same seed and the same
\* guard parameters, every order of the fragment list gives the same set
\* of cluster members.
C17_OrderIndependent ==
  (Expanded /\ AllValid) =>
    \A f \in Perms(Len(turfPolys)) : MembersInOrder(f) = Members

\* C17 (amended): the same, for inputs on which the area guard cannot turn
\* a candidate away (no area limit, or the fragments together within it).
C17_OrderIndependentWithinAreaLimit ==
  (Expanded /\ AllValid /\ AreaGuardIdle) =>
    \A f \in Perms(Len(turfPolys)) : MembersInOrder(f) = Members

\* three fragments within the area limit, two members joined in different
\* scans and one fragment left out
C17_Witness ==
  /\ Expanded /\ AllValid /\ AreaGuardIdle
  /\ MaxClusterArea > 0
  /\ Len(turfPolys) = 3
  /\ Cardinality(Members) = 2
  /\ \E f \in Perms(3) : f[1] # 1 /\ MembersInOrder(f) = Members

\* the members admitted before position k, and their area
Before(k) == {cluster[j] : j \in 1..(k - 1)}

C19_FailedComputationNotAdmitted ==
  (mpc = "expand" \/ Expanded) =>
    \A i \in Members \ {seedIndex} :
      /\ ~Throws(i, "centroid")
      /\ ~Throws(i, "distance")
      /\ ~Throws(i, "intersects")

\* the steps of the page that are not the renderer reporting settlement
StepWithoutSettlement ==
  \/ PressGetBuilding(1)
  \/ \E r \in 1..Len(runs) : FlyTimerNothing(r)
  \/ \E r \in 1..Len(runs) : FlyTimerNoFilter(r, FullWorld)
  \/ \E r \in 1..Len(runs) : FlyTimerExpand(r, FullWorld)
  \/ \E r \in 1..Len(runs) : FitTimer(r, FullWorld)

\* C20: a run that waits for the map to settle after a viewport move is
\* not left to the renderer alone: without a settlement report there is
\* still a step (the expiry of the wait) that takes the run further.
C20_WaitExpires ==
  \A r \in Runs :
    runs[r].pc \in {"flyIdle", "fitIdle"} => ENABLED StepWithoutSettlement

\* run r has just issued the fitBounds move of a pass
GrewViewport(r) ==
  /\ runs'[r].pc = "fitIdle"
  /\ runs'[r].fitCount = runs[r].fitCount + 1
  /\ viewport'.move = "fitBounds"
  /\ viewport'.bounds = turfBbox(runs'[r].currentGeom)

\* run r has just reported the level's result instead
ReportedLevel(r) ==
  /\ runs'[r].reports = runs[r].reports + 1
  /\ runs'[r].pc # "fitIdle"
  /\ viewport'.move # "fitBounds" \/ viewport' = viewport

\* C21: a pass that measured the diagonal on the first pass of a level
\* grows the viewport; on a later pass it reports the level's result and
\* issues no fitBounds when the diagonal grew by less than 10 percent of
\* the previous one, and grows the viewport when it grew by 10 percent or
\* more.
C21_ConvergenceRule ==
  [][\A r \in Runs :
       (runs[r].measured = null /\ runs'[r].measured # null) =>
         LET m == runs'[r].measured
         IN  /\ m.pass = 1 => GrewViewport(r)
             /\ (m.pass > 1 /\ m.prev > 0) =>
                  IF 100 * (m.diagonal - m.prev) < 10 * m.prev
                  THEN ReportedLevel(r)
                  ELSE GrewViewport(r)]_vars

\* the third pass of a level found the diagonal grown from 11 to 12, less
\* than 10 percent, after two fitBounds moves, and the run ended there
C21_Witness ==
  \E r \in Runs :
    /\ runs[r].pc = "done"
    /\ runs[r].validated
    /\ runs[r].measured # null
    /\ runs[r].measured.pass = 3
    /\ runs[r].measured.prev = 11
    /\ runs[r].measured.diagonal = 12
    /\ runs[r].fitCount = 2
    /\ runs[r].grew

\* run r has just issued a viewport move: a flyTo or a fitBounds
IssuedMove(r) ==
  \/ Len(runs'[r].attempted) > Len(runs[r].attempted)
  \/ runs'[r].pc = "fitIdle" /\ runs[r].pc # "fitIdle"

\* C22: a run queries (in a timer callback) only after the idle event that
\* followed its latest move and the delay started by that event, and it
\* issues its next move only from the callback that made that query: a
\* timer is started only by the idle event, out of the wait for the move
\* of the same kind, and no move is issued while a wait or a timer of an
\* unanswered move is still ahead of the query.
C22_QueryAfterSettlement ==
  [][\A r \in Runs :
       /\ (runs'[r].pc = "flyTimer" /\ runs[r].pc # "flyTimer")
            => (runs[r].pc = "flyIdle" /\ viewport' = viewport /\ ~IssuedMove(r))
       /\ (runs'[r].pc = "fitTimer" /\ runs[r].pc # "fitTimer")
            => (runs[r].pc = "fitIdle" /\ viewport' = viewport /\ ~IssuedMove(r))
       /\ IssuedMove(r) => runs[r].pc \in {"flyTimer", "fitTimer"}
       /\ runs[r].pc \in {"flyIdle", "fitIdle"} => viewport' = viewport]_vars

\* a run that flew to two levels and grew the viewport twice at the second
C22_Witness ==
  \E r \in Runs :
    /\ runs[r].pc = "fitTimer"
    /\ Len(runs[r].attempted) = 2
    /\ runs[r].fitCount = 2

\* the timer after flyTo has just reported a candidate for run r without
\* any pass of the expansion loop
DirectCandidate(r) ==
  /\ runs[r].pc = "flyTimer"
  /\ runs'[r].reports = runs[r].reports + 1
  /\ runs'[r].validated \/ runs'[r].rejected = runs[r].rejected + 1

\* C23: when the level reports a candidate straight from the rendered
\* feature (no identity filter returned a fragment), the candidate is that
\* feature with one polygon of its geometry: the polygon itself, or of a
\* MultiPolygon the first part whose ring contains the point, or the first
\* part when none does; and no fitBounds move is issued at that level.
C23_RenderedFallback ==
  [][\A r \in Runs :
       DirectCandidate(r) =>
         LET c     == runs'[r].lastCandidate
             parts == GeomParts(c.feature.geometry)
             hit   == {k \in 1..Len(parts) : pointInRing(PointAt(clickPt.x), Ring(parts[k]))}
         IN  /\ c.geometry.type = "Polygon"
             /\ \E k \in 1..Len(parts) :
                  /\ c.geometry.coordinates = parts[k]
                  /\ IF hit = {} THEN k = 1 ELSE k \in hit /\ \A m \in hit : k <= m
             /\ runs[r].fitCount = 0
             /\ runs'[r].pc # "fitIdle"
             /\ viewport' = viewport \/ viewport'.move = "flyTo"]_vars

\* the rendered feature was a MultiPolygon whose second part holds the
\* point; that part was the candidate and the run ended with it
C23_Witness ==
  \E r \in Runs :
    /\ runs[r].pc = "done"
    /\ runs[r].validated
    /\ runs[r].measured = null
    /\ runs[r].fitCount = 0
    /\ runs[r].output.feature.geometry.type = "MultiPolygon"
    /\ runs[r].output.geometry.type = "Polygon"
    /\ runs[r].output.geometry.coordinates = runs[r].output.feature.geometry.coordinates[2]
    /\ runs[r].output.geometry.coordinates # runs[r].output.feature.geometry.coordinates[1]

\* the candidate held after the query of run r's latest timer callback:
\* the merge output of that query, else the one held before
HeldAfterQuery(r) ==
  IF runs'[r].queried.merged # null THEN runs'[r].queried.merged
  ELSE IF runs[r].pc = "flyTimer" THEN null
  ELSE runs[r].currentMerged

\* C24: after a timer callback that queried, the level's candidate is the
\* output of its latest successful merge; when the callback goes on to
\* another pass that candidate is kept, and when it reports (convergence or
\* pass limit) the reported candidate is that merge output with its own
\* geometry, or nothing when no merge of the level succeeded.
C24_CandidateIsLastMerge ==
  [][\A r \in Runs :
       (runs[r].pc \in {"flyTimer", "fitTimer"} /\ runs'[r].queried # null
          /\ runs'[r].pc # "crashed") =>
         LET held == HeldAfterQuery(r)
         IN  IF runs'[r].pc = "fitIdle"
             THEN /\ runs'[r].currentMerged = held
                  /\ held # null => runs'[r].currentGeom = held.geometry
                  /\ runs'[r].reports = runs[r].reports
             ELSE /\ runs'[r].reports = runs[r].reports + 1
                  /\ IF held = null
                     THEN /\ runs'[r].lastCandidate = runs[r].lastCandidate
                          /\ runs'[r].rejected = runs[r].rejected
                          /\ ~runs'[r].validated
                     ELSE /\ runs'[r].lastCandidate =
                               [feature |-> held, geometry |-> held.geometry]
                          /\ runs'[r].validated
                               \/ runs'[r].rejected = runs[r].rejected + 1]_vars

\* a level ended by convergence on a pass whose query failed: the
\* candidate of the pass before was reported and ended the run
C24_Witness ==
  \E r \in Runs :
    /\ runs[r].pc = "done"
    /\ runs[r].validated
    /\ runs[r].queried # null
    /\ runs[r].queried.merged = null
    /\ runs[r].measured # null
    /\ runs[r].measured.pass >= 3
    /\ runs[r].output.feature = runs[r].currentMerged

\* the parts of the union result that hold the reference point
PartsHolding ==
  {k \in 1..Len(unionResult.coordinates) :
     booleanPointInPolygon(turfPoint(lngLat), unionResult.coordinates[k])}

\* C25: of a union result that is a MultiPolygon of several parts the
\* merge returns, as a Polygon, a part that holds the reference point, or,
\* when no part holds it, a part of largest area; a MultiPolygon of one
\* part is returned as that part.
C25_CanonicalPart ==
  (mpc = "done" /\ unionResult # null /\ unionResult.type = "MultiPolygon") =>
    LET parts == unionResult.coordinates
        g     == mergeResult.geometry
    IN  /\ g.type = "Polygon"
        /\ \E k \in 1..Len(parts) :
             /\ g.coordinates = parts[k]
             /\ IF PartsHolding # {} THEN k \in PartsHolding
                ELSE \A m \in 1..Len(parts) : turfArea(parts[k]) >= turfArea(parts[m])

\* three parts, the largest first, the point only in the last one, which
\* is the part returned
C25_Witness ==
  /\ mpc = "done"
  /\ unionResult # null
  /\ unionResult.type = "MultiPolygon"
  /\ Len(unionResult.coordinates) = 3
  /\ PartsHolding = {3}
  /\ turfArea(unionResult.coordinates[1]) > turfArea(unionResult.coordinates[3])
  /\ mergeResult.geometry = PolygonGeom(unionResult.coordinates[3])

\* the feature from which the i-th flattened polygon comes, counting from
\* feature k on
RECURSIVE OriginOf(_, _)
OriginOf(i, k) ==
  IF i <= Len(FeaturePolys(features[k])) THEN k
  ELSE OriginOf(i - Len(FeaturePolys(features[k])), k + 1)

\* C26: the result of a merge that chose a seed carries the properties of
\* the feature the seed fragment was flattened from.
C26_PropertiesOfSeedFeature ==
  (mpc = "done" /\ Seeded /\ AllValid) =>
    mergeResult.properties = features[OriginOf(seedIndex, 1)].properties

\* C27: while the expansion runs, no member leaves the cluster; the
\* running area is the sum of the members' areas; every scan after the
\* first starts with a larger cluster than the scan before it; and no more
\* scans are started than there are fragments.
C27_ExpansionTerminates ==
  /\ [](PastSeed /\ Seeded /\ mpc # "raised" =>
          /\ clusterArea = SumAreas(Members)
          /\ Cardinality(Members) = Len(cluster)
          /\ \A k \in 1..(Len(scanSizes) - 1) : scanSizes[k] < scanSizes[k + 1]
          /\ Len(scanSizes) <= Len(allCoords)
          /\ Len(scanSizes) >= 1)
  /\ [][mpc = "expand" => IsPrefix(cluster, cluster')]_vars

\* three scans: the second and the third member joined in different
\* scans, and the third scan added nothing
C27_Witness ==
  /\ Expanded
  /\ scanSizes = <<1, 2, 3>>
  /\ Len(allCoords) = 3

\* C28: at most one launch is pending at a time, no launch is pending
\* while the singleton is a connected browser, and every connected browser
\* is the one the singleton refers to.
C28_SingleBrowser ==
  /\ Cardinality({q \in Reqs : reqs[q].pc = "launching"}) <= 1
  /\ (browserInstance # 0 /\ browserInstance \in connected)
       => \A q \in Reqs : reqs[q].pc # "launching"
  /\ \A b \in connected : b = browserInstance

\* C29: a chain that was stopped starts no further test coordinate (its
\* idx never advances again), and at most one chain that was not stopped
\* has a timer pending.
C29_StoppedChainEnds ==
  /\ [][\A c \in stopped : idx'[c] = idx[c]]_vars
  /\ [](Cardinality({c \in 1..Len(idx) : Pending(c) /\ c \notin stopped}) <= 1)

====
